---- MODULE Spec2Model ----
(***************************************************************************)
(* Bloom filter (bloom_filter.py, duplicated in spell_checker.py) and the  *)
(* interactive loop of SpellChecker.start_sc.                              *)
(*                                                                         *)
(* Floating point sizing is modelled in fixed point: a probability is an   *)
(* integer number of percent, a logarithm is an integer number of          *)
(* millionths.  mmh3.hash is a library primitive: it is modelled as an     *)
(* arbitrary deterministic table from (item, seed) to signed 32-bit        *)
(* digests, chosen when the filter is built.                               *)
(***************************************************************************)
EXTENDS Integers, FiniteSets, Sequences, TLC

VARIABLES
    status,       \* "new" | "constructed" | the exception __init__ raised
    items_count,  \* argument items_count of __init__
    fp_prob,      \* argument fp_prob of __init__, in percent
    size,         \* self.size
    hash_count,   \* self.hash_count
    bit_array,    \* self.bit_array, indexed from 0
    digests,      \* mmh3.hash as a table <<item, seed>> -> digest
    added,        \* history: the items add() was called with
    last_op,      \* history: the last call, <<kind, item>>
    repeated,     \* history: the last call repeats the call before it
    result,       \* what the last check() returned
    op_error,     \* the exception the last add()/check() raised, or "none"
    sc_state,     \* start_sc: "idle" | "reading" | "returned" | exception
    last_input,   \* start_sc: what the last input() call met
    output        \* start_sc: the last message printed

vars == <<status, items_count, fp_prob, size, hash_count, bit_array, digests,
          added, last_op, repeated, result, op_error, sc_state, last_input,
          output>>

filter_vars == <<status, items_count, fp_prob, size, hash_count, digests>>
sc_vars == <<sc_state, last_input, output>>

-----------------------------------------------------------------------------
(* Bounds and input sets *)

MaxItemsCount == 3
MaxWords == 2

ItemCounts == (-1) .. MaxItemsCount

\* fp_prob values in percent; -50, 0, 100 and 150 lie outside (0,1)
FpProbs == {-50, 0, 20, 25, 50, 75, 100, 150}

Items == {"", "bloom", "genial"}

\* mmh3.hash returns a signed 32-bit integer; the samples are its two
\* extremes and -1
MinDigest == (-2147483647) - 1
MaxDigest == 2147483647
Digests == {MinDigest, -1, MaxDigest}

-----------------------------------------------------------------------------
(* Sizing arithmetic *)

MICRO == 1000000
\* math.log(2) and math.log(2) ** 2 in millionths
LN2 == 693147
LN2_SQ == 480453

\* math.log(p / 100) in millionths, rounded; defined for p > 0
math_log(p) ==
    CASE p = 20  -> -1609438
      [] p = 25  -> -1386294
      [] p = 50  -> -693147
      [] p = 75  -> -287682
      [] p = 100 -> 0
      [] p = 150 -> 405465

\* math.log raises ValueError ("math domain error") for an argument <= 0
log_raises(p) == p <= 0

\* int(num / den): truncation toward zero, den # 0
int_trunc(num, den) ==
    LET n == IF den < 0 THEN -num ELSE num
        d == IF den < 0 THEN -den ELSE den
    IN  IF n >= 0 THEN n \div d ELSE -((-n) \div d)

\* get_size with items_count dividing where it should multiply
get_size_div(n, p) == int_trunc(-math_log(p), n * LN2_SQ)

\* m = -(items_count * math.log(fp_prob)) / (math.log(2) ** 2); return int(m)
get_size(n, p) == int_trunc(-(n * math_log(p)), LN2_SQ)

\* k = (size_of_bitarray / items_no) * math.log(2); return int(k)
get_hash_count(m, n) == int_trunc(m * LN2, n * MICRO)

\* the exception BloomFilter(n, p) raises, or "constructed"
init_outcome(n, p) ==
    IF log_raises(p) THEN "ValueError"
    ELSE IF n = 0 THEN "ZeroDivisionError"
    ELSE IF get_size(n, p) < 0 THEN "ValueError"
    ELSE "constructed"

-----------------------------------------------------------------------------
(* Hashing and the bit array *)

\* a remainder that truncates toward zero, as C's % does: the sign of a
py_mod_trunc(a, b) == IF a >= 0 THEN a % b ELSE -((((-(a + 1)) % b) + 1) % b)

\* Python's a % b for b > 0: the result lies in 0 .. b - 1 whatever the
\* sign of a (written so that -a is never formed for the least digest)
py_mod(a, b) == IF a >= 0 THEN a % b ELSE (b - 1) - ((-(a + 1)) % b)

\* mmh3.hash(item, i) % self.size
index(item, i) == py_mod(digests[<<item, i>>], size)

\* bitarray indexing: a negative index counts from the end
cell(j) == IF j < 0 THEN j + size ELSE j

\* the exception the loop of add()/check() raises for item, or "none"
raises(item) ==
    IF hash_count > 0 /\ size = 0 THEN "ZeroDivisionError"
    ELSE IF \E i \in 0 .. (hash_count - 1) :
                index(item, i) \notin (-size) .. (size - 1)
         THEN "IndexError"
    ELSE "none"

\* add() flipping each probed cell instead of setting it
RECURSIVE add_toggle_from(_, _, _)
add_toggle_from(bits, item, i) ==
    IF i >= hash_count THEN bits
    ELSE add_toggle_from(
             [bits EXCEPT ![cell(index(item, i))] = ~bits[cell(index(item, i))]],
             item, i + 1)

\* add() stopping one round early
RECURSIVE add_skip_from(_, _, _)
add_skip_from(bits, item, i) ==
    IF i >= hash_count - 1 THEN bits
    ELSE add_skip_from([bits EXCEPT ![cell(index(item, i))] = TRUE], item, i + 1)

\* add() rewriting the whole array around each probed cell
RECURSIVE add_clear_from(_, _, _)
add_clear_from(bits, item, i) ==
    IF i >= hash_count THEN bits
    ELSE add_clear_from(
             [j \in DOMAIN bits |-> j = cell(index(item, i))], item, i + 1)

\* the loop of add(), from round i on
RECURSIVE add_from(_, _, _)
add_from(bits, item, i) ==
    IF i >= hash_count THEN bits
    ELSE add_from([bits EXCEPT ![cell(index(item, i))] = TRUE], item, i + 1)

add_toggle(bits, item) == add_toggle_from(bits, item, 0)

add_skip(bits, item) == add_skip_from(bits, item, 0)

add_clear(bits, item) == add_clear_from(bits, item, 0)

\* add(self, item)
add(bits, item) == add_from(bits, item, 0)

\* the loop of check(), from round i on, with its early return
RECURSIVE check_from(_, _, _)
check_from(bits, item, i) ==
    IF i >= hash_count THEN TRUE
    ELSE IF bits[cell(index(item, i))] = FALSE THEN FALSE
    ELSE check_from(bits, item, i + 1)

check(bits, item) == check_from(bits, item, 0)

py_bool(b) == IF b THEN "True" ELSE "False"

-----------------------------------------------------------------------------
(* The filter's operations *)

NoOp == <<"none", "">>

Init ==
    /\ status = "new"
    /\ items_count = 0
    /\ fp_prob = 0
    /\ size = 0
    /\ hash_count = 0
    /\ bit_array = <<>>
    /\ digests = <<>>
    /\ added = {}
    /\ last_op = NoOp
    /\ repeated = FALSE
    /\ result = "none"
    /\ op_error = "none"
    /\ sc_state = "idle"
    /\ last_input = "none"
    /\ output = ""

\* BloomFilter(items_count = n, fp_prob = p)
Construct(n, p) ==
    /\ status = "new"
    /\ items_count' = n
    /\ fp_prob' = p
    /\ status' = init_outcome(n, p)
    /\ IF init_outcome(n, p) = "constructed"
       THEN /\ size' = get_size(n, p)
            /\ hash_count' = get_hash_count(get_size(n, p), n)
            /\ bit_array' = [j \in 0 .. (get_size(n, p) - 1) |-> FALSE]
            /\ \E h \in [Items \X (0 .. (get_hash_count(get_size(n, p), n) - 1))
                          -> Digests] : digests' = h
       ELSE /\ size' = 0
            /\ hash_count' = 0
            /\ bit_array' = <<>>
            /\ digests' = <<>>
    /\ UNCHANGED <<added, last_op, repeated, result, op_error, sc_vars>>

\* bloomf.add(item)
Add(item) ==
    /\ status = "constructed"
    /\ sc_state = "idle"
    /\ op_error = "none"
    /\ op_error' = raises(item)
    /\ bit_array' = IF raises(item) = "none" THEN add(bit_array, item)
                    ELSE bit_array
    /\ added' = added \cup {item}
    /\ last_op' = <<"add", item>>
    /\ repeated' = (last_op = <<"add", item>>)
    /\ UNCHANGED <<filter_vars, result, sc_vars>>

\* check() that also sets the cells it probes
CheckWrites(item) ==
    /\ status = "constructed"
    /\ sc_state = "idle"
    /\ op_error = "none"
    /\ op_error' = raises(item)
    /\ result' = IF raises(item) = "none" THEN py_bool(check(bit_array, item))
                 ELSE "none"
    /\ bit_array' = IF raises(item) = "none" THEN add(bit_array, item)
                    ELSE bit_array
    /\ last_op' = <<"check", item>>
    /\ repeated' = (last_op = <<"check", item>>)
    /\ UNCHANGED <<filter_vars, added, sc_vars>>

\* bloomf.check(item)
Check(item) ==
    /\ status = "constructed"
    /\ sc_state = "idle"
    /\ op_error = "none"
    /\ op_error' = raises(item)
    /\ result' = IF raises(item) = "none" THEN py_bool(check(bit_array, item))
                 ELSE "none"
    /\ last_op' = <<"check", item>>
    /\ repeated' = (last_op = <<"check", item>>)
    /\ UNCHANGED <<filter_vars, bit_array, added, sc_vars>>

Next ==
    \/ \E n \in ItemCounts, p \in FpProbs : Construct(n, p)
    \/ \E item \in Items : Add(item)
    \/ \E item \in Items : Check(item)

Spec == Init /\ [][Next]_vars

-----------------------------------------------------------------------------
(* SpellChecker: the filter built from a word list, then the input loop *)

WordLists == UNION {[1 .. k -> Items] : k \in 1 .. MaxWords}

\* for w in wordlist: bloomF.add(w)
RECURSIVE add_all(_, _)
add_all(bits, wordlist) ==
    IF wordlist = <<>> THEN bits
    ELSE add_all(add(bits, Head(wordlist)), Tail(wordlist))

range(f) == {f[x] : x \in DOMAIN f}

EXISTS_MSG == "probably exist in the dictionary!"
NOT_EXISTS_MSG == "probably DOES NOT exist in the dictionary!"
EMPTY_MSG == "Please, type a word to check!"
EXIT_MSG == "Exiting..."

\* the state once SpellChecker(wordlist_file, fp_prob) has returned and
\* start_sc() is about to read its first line
SCInit ==
    \E wordlist \in WordLists, p \in FpProbs :
        /\ init_outcome(Len(wordlist), p) = "constructed"
        /\ status = "constructed"
        /\ items_count = Len(wordlist)
        /\ fp_prob = p
        /\ size = get_size(Len(wordlist), p)
        /\ hash_count = get_hash_count(get_size(Len(wordlist), p), Len(wordlist))
        /\ digests \in [Items \X (0 .. (hash_count - 1)) -> Digests]
        /\ bit_array = add_all([j \in 0 .. (size - 1) |-> FALSE], wordlist)
        /\ added = range(wordlist)
        /\ last_op = <<"add", wordlist[Len(wordlist)]>>
        /\ repeated = FALSE
        /\ result = "none"
        /\ op_error = "none"
        /\ sc_state = "reading"
        /\ last_input = "none"
        /\ output = ""

\* input() returns a non-empty line: check it and print the verdict
ReadWord(word) ==
    /\ sc_state = "reading"
    /\ word # ""
    /\ op_error' = raises(word)
    /\ sc_state' = IF raises(word) = "none" THEN "reading" ELSE raises(word)
    /\ result' = IF raises(word) = "none" THEN py_bool(check(bit_array, word))
                 ELSE "none"
    /\ output' = IF raises(word) # "none" THEN output
                 ELSE IF check(bit_array, word) THEN EXISTS_MSG
                 ELSE NOT_EXISTS_MSG
    /\ last_input' = "word"
    /\ last_op' = <<"check", word>>
    /\ repeated' = (last_op = <<"check", word>>)
    /\ UNCHANGED <<filter_vars, bit_array, added>>

\* input() returns the empty line: ask again, check nothing
ReadEmpty ==
    /\ sc_state = "reading"
    /\ output' = EMPTY_MSG
    /\ last_input' = "empty"
    /\ UNCHANGED <<filter_vars, bit_array, added, last_op, repeated, result,
                   op_error, sc_state>>

\* KeyboardInterrupt inside the try block: caught, closing message, break
Interrupt ==
    /\ sc_state = "reading"
    /\ output' = EXIT_MSG
    /\ sc_state' = "returned"
    /\ last_input' = "interrupt"
    /\ UNCHANGED <<filter_vars, bit_array, added, last_op, repeated, result,
                   op_error>>

\* input() meets end of input: it raises EOFError, which the except clause
\* of start_sc (KeyboardInterrupt) and those of main.py (FileNotFoundError,
\* ValueError) do not catch
EndOfInput ==
    /\ sc_state = "reading"
    /\ sc_state' = "EOFError"
    /\ last_input' = "eof"
    /\ UNCHANGED <<filter_vars, bit_array, added, last_op, repeated, result,
                   op_error, output>>

NextSC ==
    \/ \E word \in Items : ReadWord(word)
    \/ ReadEmpty
    \/ Interrupt
    \/ EndOfInput

SpecSC == SCInit /\ [][NextSC]_vars

-----------------------------------------------------------------------------
(* Claims *)

Constructed == status = "constructed"

\* the parameters the claims call valid: items_count >= 1 and fp_prob, in
\* percent, strictly between 0 and 1
valid(n, p) == n >= 1 /\ 0 < p /\ p < 100

Rounds == 0 .. (hash_count - 1)

\* C1: once add(x) has been called, every later check(x) returns True,
\* whatever else was added before or after and however many checks were made.
NoFalseNegatives ==
    /\ Constructed => \A x \in added : check(bit_array, x)
    /\ (last_op[1] = "check" /\ last_op[2] \in added) => result = "True"

\* a check of an added item, made after another item was added too, on a
\* filter that really probes bits
NoFalseNegativesWitness ==
    /\ Constructed
    /\ hash_count >= 2
    /\ last_op[1] = "check"
    /\ last_op[2] \in added
    /\ Cardinality(added) >= 2
    /\ result = "True"

\* C2: construction with items_count < 1 or fp_prob outside (0,1) fails and
\* produces no filter.
ConstructionValidates ==
    (status # "new" /\ ~valid(items_count, fp_prob)) => ~Constructed

\* C3: every valid (items_count, fp_prob) gives size >= 1 and hash_count >= 1.
SizingBounds ==
    (Constructed /\ valid(items_count, fp_prob)) => (size >= 1 /\ hash_count >= 1)

\* C4: the bit array starts all False at construction, keeps its length, and
\* a cell that is True stays True in every later state.
BitsMonotone ==
    [][ /\ (status = "new" /\ status' = "constructed") =>
             (/\ DOMAIN bit_array' = 0 .. (size' - 1)
              /\ \A j \in DOMAIN bit_array' : ~bit_array'[j])
        /\ Constructed =>
             (/\ DOMAIN bit_array' = DOMAIN bit_array
              /\ \A j \in DOMAIN bit_array : bit_array[j] => bit_array'[j])
      ]_vars

\* an add that found bits already set by an earlier add
BitsMonotoneWitness ==
    /\ Constructed
    /\ last_op[1] = "add"
    /\ Cardinality(added) >= 2
    /\ \E j \in DOMAIN bit_array : bit_array[j]
    /\ \E j \in DOMAIN bit_array : ~bit_array[j]

\* C5: add(x); add(x) leaves the filter as a single add(x) does, so every
\* check(y) answers the same in both.
InsertIdempotent ==
    [][ \A x \in Items :
          (last_op = <<"add", x>> /\ last_op' = <<"add", x>>) =>
             (/\ bit_array' = bit_array
              /\ \A y \in Items : check(bit_array', y) = check(bit_array, y))
      ]_vars

\* the same item added twice in a row on a filter that sets bits
InsertIdempotentWitness ==
    /\ Constructed
    /\ hash_count >= 1
    /\ last_op[1] = "add"
    /\ repeated
    /\ \E j \in DOMAIN bit_array : bit_array[j]

\* C6: check(item) leaves bit_array, size and hash_count unchanged, and a
\* check repeated with no add in between returns what it returned before.
QueryReadOnly ==
    [][ last_op'[1] = "check" =>
          (/\ bit_array' = bit_array
           /\ size' = size
           /\ hash_count' = hash_count
           /\ (last_op' = last_op => result' = result))
      ]_vars

\* the same item checked twice in a row on a filter holding set bits
QueryReadOnlyWitness ==
    /\ Constructed
    /\ hash_count >= 1
    /\ last_op[1] = "check"
    /\ repeated
    /\ added # {}
    /\ \E j \in DOMAIN bit_array : ~bit_array[j]

\* C7: add and check raise nothing, for every item including the empty
\* string: no modulo is by zero and every index hash(item, i) % size lies in
\* [0, size), also for a negative digest.
NoFailure ==
    Constructed =>
        /\ op_error = "none"
        /\ hash_count > 0 => size > 0
        /\ \A item \in Items :
             /\ raises(item) = "none"
             /\ \A i \in Rounds : index(item, i) \in 0 .. (size - 1)

\* the empty string added through a negative digest, without error
NoFailureWitness ==
    /\ Constructed
    /\ hash_count >= 1
    /\ last_op = <<"add", "">>
    /\ digests[<<"", 0>>] < 0
    /\ op_error = "none"
    /\ bit_array[index("", 0)]

\* C8: for a fixed valid fp_prob a larger items_count never gives a smaller
\* size; for a fixed items_count a smaller fp_prob never gives a smaller size.
SizingMonotone ==
    (Constructed /\ valid(items_count, fp_prob)) =>
        /\ \A n \in ItemCounts :
             n >= items_count => get_size(n, fp_prob) >= size
        /\ \A p \in FpProbs :
             (valid(items_count, p) /\ p <= fp_prob) =>
                 get_size(items_count, p) >= size

\* a filter built for more than one item at a probability that is neither
\* the smallest nor the largest valid one
SizingMonotoneWitness ==
    /\ Constructed
    /\ valid(items_count, fp_prob)
    /\ items_count >= 2
    /\ \E p \in FpProbs : valid(items_count, p) /\ p < fp_prob
    /\ size > get_size(1, fp_prob)

\* C9: end of input and an interrupt both end the loop with the closing
\* message and a clean return; any other line keeps the loop reading.
LoopEndsCleanly ==
    /\ last_input \in {"eof", "interrupt"} =>
           (sc_state = "returned" /\ output = EXIT_MSG)
    /\ last_input \in {"word", "empty"} => sc_state = "reading"

\* C10: check returns False exactly when some probed cell is False and True
\* exactly when all are True; hence on a filter with no insertions check
\* returns False for every item.
QueryIsConjunction ==
    Constructed =>
        \A item \in Items :
            /\ check(bit_array, item) =
                   (\A i \in Rounds : bit_array[index(item, i)])
            /\ last_op = <<"check", item>> =>
                   result = py_bool(\A i \in Rounds : bit_array[index(item, i)])
            /\ added = {} => ~check(bit_array, item)

====
